---------------------------- MODULE Spec2Model ----------------------------
(***************************************************************************)
(* A model of the space-weather forecast service (src/app/main.py): the    *)
(* scoped database connection, the /api/forecast, /api/status and /dbinfo  *)
(* handlers, the aggregation of forecast rows into days and the Kp         *)
(* classification.                                                         *)
(*                                                                         *)
(* Conventions                                                             *)
(*   - a Kp value is an integer number of thousandths (6.2 is 6200);       *)
(*     a NULL kp_index is KpNull;                                          *)
(*   - a text value is the sequence of its character codes, so that text   *)
(*     comparison (ORDER BY, WHERE >=, sorted by key) is lexicographic;    *)
(*   - time advances in ticks of one sample period; tick 0 is              *)
(*     2024-12-30 00:00:00, a Monday; a date is its day number from there; *)
(*   - the Russian literals of the source are written in English:          *)
(*     "Calm" Спокойное, "Minor" Небольшая буря, "Moderate" Умеренная      *)
(*     буря, "Strong" Сильная буря, "VeryStrong" Очень сильная буря,       *)
(*     "Extreme" Экстремальная буря, "WeakStorm" Слабая буря,              *)
(*     "Today" Сегодня, "Tomorrow" Завтра, "Moscow" Москва.                *)
(***************************************************************************)
EXTENDS Integers, Sequences, FiniteSets, TLC

(***************************************************************************)
(* Bounds of the model.                                                    *)
(***************************************************************************)
NumRequests == 2       \* requests in flight at once
MaxTableRows == 2      \* rows of kp_forecasts_3day
MaxRows == 4           \* rows handed to process_real_forecast_data directly
MaxClock == 2          \* last tick the wall clock reaches
MaxKp == 9500          \* largest Kp (thousandths) given to get_storm_level

(***************************************************************************)
(* Text.                                                                   *)
(***************************************************************************)
Min(a, b) == IF a <= b THEN a ELSE b

\* Lexicographic order of two texts (Python str <, SQLite BINARY collation).
StrLess(a, b) ==
    \/ \E i \in 1..Min(Len(a), Len(b)) :
          /\ a[i] < b[i]
          /\ \A j \in 1..(i - 1) : a[j] = b[j]
    \/ /\ Len(a) < Len(b)
       /\ \A j \in 1..Len(a) : a[j] = b[j]

StrGeq(a, b) == ~StrLess(a, b)

Pad2(n) == <<48 + (n \div 10), 48 + (n % 10)>>

Pad4(n) == <<48 + (n \div 1000), 48 + ((n \div 100) % 10),
             48 + ((n \div 10) % 10), 48 + (n % 10)>>

(***************************************************************************)
(* Calendar and clock.                                                     *)
(***************************************************************************)
\* The hours of the day at which the feed has samples, one per tick.
SampleHours == <<0, 12>>

TicksPerDay == Len(SampleHours)

\* datetime.date(): the day number of a tick.
DateOfTick(t) == t \div TicksPerDay

HourOfTick(t) == SampleHours[1 + (t % TicksPerDay)]

\* The civil date of a day number (day 0 is 2024-12-30; valid to 2025-01-31).
Civil(d) ==
    IF d <= 1 THEN [year |-> 2024, month |-> 12, day |-> 30 + d]
              ELSE [year |-> 2025, month |-> 1, day |-> d - 1]

\* date.weekday(): 0 is Monday; day 0 is a Monday.
Weekday(d) == d % 7

MonthName(m) ==
    IF m = 12 THEN <<68, 101, 99, 101, 109, 98, 101, 114>>    \* "December"
              ELSE <<74, 97, 110, 117, 97, 114, 121>>         \* "January"

\* date.isoformat(): "YYYY-MM-DD".
IsoFormat(d) ==
    LET c == Civil(d)
    IN  Pad4(c.year) \o <<45>> \o Pad2(c.month) \o <<45>> \o Pad2(c.day)

\* strftime("%d %B"): "DD Month".
StrfDayMonth(d) ==
    LET c == Civil(d)
    IN  Pad2(c.day) \o <<32>> \o MonthName(c.month)

\* strftime("%H:%M:%S") of a tick.
ClockText(t) == Pad2(HourOfTick(t)) \o <<58, 48, 48, 58, 48, 48>>

\* "YYYY-MM-DD HH:MM:SS": the format of datetime('now') and of a well-formed
\* forecast_timestamp.
SqlTimestamp(t) == IsoFormat(DateOfTick(t)) \o <<32>> \o ClockText(t)

\* "YYYY-MM-DDTHH:MM:SS": a timestamp the feed wrote in ISO 8601 form, which
\* strptime("%Y-%m-%d %H:%M:%S") rejects.
IsoTimestamp(t) == IsoFormat(DateOfTick(t)) \o <<84>> \o ClockText(t)


\* The day number of a civil date: the inverse of Civil.
DayNumber(year, month, day) ==
    IF year = 2024 THEN day - 30 ELSE day + 1

IsDigit(c) == c >= 48 /\ c <= 57

Num2(s, i) == (s[i] - 48) * 10 + (s[i + 1] - 48)

Num4(s, i) == Num2(s, i) * 100 + Num2(s, i + 2)

\* datetime.strptime(s, "%Y-%m-%d %H:%M:%S"): the parsed datetime, or
\* ok = FALSE where strptime raises ValueError.
Strptime(s) ==
    IF /\ Len(s) = 19
       /\ s[5] = 45 /\ s[8] = 45 /\ s[11] = 32 /\ s[14] = 58 /\ s[17] = 58
       /\ \A i \in {1, 2, 3, 4, 6, 7, 9, 10, 12, 13, 15, 16, 18, 19} : IsDigit(s[i])
    THEN [ok |-> TRUE,
          date |-> DayNumber(Num4(s, 1), Num2(s, 6), Num2(s, 9)),
          hour |-> Num2(s, 12), minute |-> Num2(s, 15)]
    ELSE [ok |-> FALSE, date |-> 0, hour |-> 0, minute |-> 0]

\* timestamp.strftime("%H:%M").
TimeStr(ts) == Pad2(ts.hour) \o <<58>> \o Pad2(ts.minute)

(***************************************************************************)
(* Classification.                                                         *)
(***************************************************************************)
KpScale == 1000

\* A NULL kp_index (None in Python).
KpNull == -1

get_storm_level_strict(kp_index) ==
    IF kp_index > 9 * KpScale THEN "Extreme"
    ELSE IF kp_index > 8 * KpScale THEN "VeryStrong"
    ELSE IF kp_index > 7 * KpScale THEN "Strong"
    ELSE IF kp_index > 6 * KpScale THEN "Moderate"
    ELSE IF kp_index > 5 * KpScale THEN "Minor"
    ELSE "Calm"

get_storm_level(kp_index) ==
    IF kp_index >= 9 * KpScale THEN "Extreme"
    ELSE IF kp_index >= 8 * KpScale THEN "VeryStrong"
    ELSE IF kp_index >= 7 * KpScale THEN "Strong"
    ELSE IF kp_index >= 6 * KpScale THEN "Moderate"
    ELSE IF kp_index >= 5 * KpScale THEN "Minor"
    ELSE "Calm"

get_warning_message(storm_level) ==
    CASE storm_level = "Calm" -> "CalmConditions"
      [] storm_level = "Minor" -> "MinorFluctuations"
      [] storm_level = "Moderate" -> "AttentionModerate"
      [] storm_level = "Strong" -> "CautionStrong"
      [] storm_level = "VeryStrong" -> "AttentionVeryStrong"
      [] storm_level = "Extreme" -> "CriticalExtreme"
      [] OTHER -> "Monitoring"

WeekdayNames == <<"Monday", "Tuesday", "Wednesday", "Thursday", "Friday",
                  "Saturday", "Sunday">>

\* get_day_name(date), with now the date its own datetime.now() returns.
get_day_name(date, now) ==
    IF date = now THEN "Today"
    ELSE IF date = now + 1 THEN "Tomorrow"
    ELSE WeekdayNames[1 + Weekday(date)]

(***************************************************************************)
(* The fallback forecast.                                                  *)
(***************************************************************************)
\* A sequence of whole Kp values in thousandths.
Kps(seq) == [i \in DOMAIN seq |-> seq[i] * KpScale]

\* "06:00", "09:00", "12:00", "15:00", "18:00", "21:00", "00:00", "03:00".
FallbackTimes ==
    LET hours == <<6, 9, 12, 15, 18, 21, 0, 3>>
    IN  [i \in DOMAIN hours |-> Pad2(hours[i]) \o <<58>> \o Pad2(0)]

FallbackDaysSwapped(today) ==
    << [day |-> "Today", date |-> StrfDayMonth(today), stormLevel |-> "WeakStorm",
        values |-> Kps(<<4, 3, 4, 5, 4, 3, 4, 3>>), times |-> FallbackTimes],
       [day |-> "Tomorrow", date |-> StrfDayMonth(today + 1), stormLevel |-> "WeakStorm",
        values |-> Kps(<<3, 4, 5, 4, 3, 4, 3, 4>>), times |-> FallbackTimes] >>

FallbackDays(today) ==
    << [day |-> "Today", date |-> StrfDayMonth(today), stormLevel |-> "WeakStorm",
        values |-> Kps(<<3, 4, 5, 4, 3, 4, 3, 4>>), times |-> FallbackTimes],
       [day |-> "Tomorrow", date |-> StrfDayMonth(today + 1), stormLevel |-> "WeakStorm",
        values |-> Kps(<<4, 3, 4, 5, 4, 3, 4, 3>>), times |-> FallbackTimes] >>

\* get_fallback_forecast(), with today the date its datetime.now() returns.
get_fallback_forecast(today) ==
    [kind |-> "forecast", location |-> "Moscow", currentStorm |-> "WeakStorm",
     warning |-> "DataUpdating", days |-> FallbackDays(today)]

(***************************************************************************)
(* process_real_forecast_data.                                             *)
(*                                                                         *)
(* A row is [ts |-> text, kp |-> Kp or KpNull].  forecasts_by_day is the   *)
(* sequence of its entries in insertion order, each with its key.  The     *)
(* function reads the clock once for today (line 181) and once more in     *)
(* every call of get_day_name (line 251): names is the sequence of dates   *)
(* those later reads return, one per call.                                 *)
(***************************************************************************)
IsStaleInclusive(row_date, today) == row_date <= today

\* line 193: the row is skipped.
IsStale(row_date, today) == row_date < today

\* lines 186-198: the row passes the try block (parsed, not stale).
RowKept(timestamp, today) ==
    timestamp.ok /\ ~IsStale(timestamp.date, today)

HasKey(by_day, key) == \E i \in DOMAIN by_day : by_day[i].key = key

KeyIndex(by_day, key) == CHOOSE i \in DOMAIN by_day : by_day[i].key = key

\* lines 200-217: one kept row is added to forecasts_by_day.
AddRow(by_day, row, timestamp, names) ==
    LET row_date == timestamp.date
        date_key == IsoFormat(row_date)
        withDay ==
            IF HasKey(by_day, date_key) THEN by_day
            ELSE Append(by_day,
                        [key |-> date_key,
                         day |-> get_day_name(row_date, names[Len(by_day) + 1]),
                         date |-> StrfDayMonth(row_date),
                         stormLevel |-> "Calm",
                         values |-> <<>>, times |-> <<>>])
        i == KeyIndex(withDay, date_key)
    IN  [withDay EXCEPT ![i].values = Append(@, row.kp),
                        ![i].times = Append(@, TimeStr(timestamp))]

RECURSIVE GroupRows(_, _, _, _, _)
\* lines 185-217: the loop over rows, from row i on.
GroupRows(rows, i, today, names, by_day) ==
    IF i > Len(rows) THEN by_day
    ELSE LET timestamp == Strptime(rows[i].ts)
         IN  GroupRows(rows, i + 1, today, names,
                       IF RowKept(timestamp, today)
                       THEN AddRow(by_day, rows[i], timestamp, names)
                       ELSE by_day)

RECURSIVE InsertByKey(_, _)
InsertByKey(sorted, e) ==
    IF sorted = <<>> THEN <<e>>
    ELSE IF StrLess(e.key, Head(sorted).key) THEN <<e>> \o sorted
    ELSE <<Head(sorted)>> \o InsertByKey(Tail(sorted), e)

RECURSIVE SortByKey(_)
SortByKey(by_day) ==
    IF by_day = <<>> THEN <<>>
    ELSE InsertByKey(SortByKey(SubSeq(by_day, 1, Len(by_day) - 1)),
                     by_day[Len(by_day)])

SortedDaysUnsorted(by_day) == by_day

\* line 220: sorted(forecasts_by_day.items(), key=lambda x: x[0]).
SortedDays(by_day) == SortByKey(by_day)

\* line 221: the first 3.
RetainedDays == 3

\* The values of a day that are not numbers: max() or the comparison in
\* get_storm_level raises TypeError on them.
HasNull(values) == \E i \in DOMAIN values : values[i] = KpNull

DayMaxKpLast(values) == values[Len(values)]

\* line 226: max(day["data"]["values"]).
DayMaxKp(values) ==
    CHOOSE v \in {values[i] : i \in DOMAIN values} :
        \A i \in DOMAIN values : values[i] <= v

\* lines 224-229: the day with its storm level.
WithStormLevel(day) ==
    [day |-> day.day, date |-> day.date,
     stormLevel |-> IF day.values # <<>> THEN get_storm_level(DayMaxKp(day.values))
                                          ELSE "Calm",
     values |-> day.values, times |-> day.times]

\* lines 219-248: the response built from forecasts_by_day, or the TypeError
\* raised while classifying a retained day.
BuildResult(by_day) ==
    LET sorted_days == SortedDays(by_day)
        taken == SubSeq(sorted_days, 1, Min(RetainedDays, Len(sorted_days)))
    IN  IF \E i \in DOMAIN taken : HasNull(taken[i].values)
        THEN [kind |-> "raise"]
        ELSE LET days_list == [i \in DOMAIN taken |-> WithStormLevel(taken[i])]
                 current_storm ==
                     IF days_list # <<>> /\ days_list[1].values # <<>>
                     THEN get_storm_level(DayMaxKp(days_list[1].values))
                     ELSE "Calm"
             IN  [kind |-> "forecast", location |-> "Moscow",
                  currentStorm |-> current_storm,
                  warning |-> get_warning_message(current_storm),
                  days |-> days_list]

\* process_real_forecast_data(rows).
process_real_forecast_data(rows, today, names) ==
    BuildResult(GroupRows(rows, 1, today, names, <<>>))

\* The number of get_day_name calls the loop makes: one per distinct date kept.
DayNameCalls(rows, today) ==
    LET parsed == {Strptime(rows[i].ts) : i \in DOMAIN rows}
    IN  Cardinality({ts.date : ts \in {p \in parsed : RowKept(p, today)}})

\* The dates n successive clock reads may return, none before `from`.
ClockReads(from, n) ==
    {s \in [1..n -> from..DateOfTick(MaxClock)] :
        \A i \in 1..(n - 1) : s[i] <= s[i + 1]}

LastRead(from, reads) == IF reads = <<>> THEN from ELSE reads[Len(reads)]

\* The clock after a read returned date d: the first tick of d not before t.
TickAtDate(t, d) == IF DateOfTick(t) >= d THEN t ELSE d * TicksPerDay

(***************************************************************************)
(* The store and its query.                                                *)
(***************************************************************************)
RECURSIVE InsertByTs(_, _)
InsertByTs(sorted, row) ==
    IF sorted = <<>> THEN <<row>>
    ELSE IF StrLess(row.ts, Head(sorted).ts) THEN <<row>> \o sorted
    ELSE <<Head(sorted)>> \o InsertByTs(Tail(sorted), row)

RECURSIVE OrderByTs(_)
\* ORDER BY forecast_timestamp (ties in rowid order).
OrderByTs(tbl) ==
    IF tbl = <<>> THEN <<>>
    ELSE InsertByTs(OrderByTs(SubSeq(tbl, 1, Len(tbl) - 1)), tbl[Len(tbl)])

QueryLimit == 48

\* lines 130-137: the rows not before datetime('now'), ascending, at most 48.
ForecastQuery(tbl, now) ==
    LET matching == SelectSeq(tbl, LAMBDA row : StrGeq(row.ts, SqlTimestamp(now)))
        ordered == OrderByTs(matching)
    IN  SubSeq(ordered, 1, Min(QueryLimit, Len(ordered)))

\* The condition of the file at DB_PATH:
\*   "missing"     os.path.exists(DB_PATH) is false;
\*   "unopenable"  the file exists and sqlite3.connect raises;
\*   "corrupt"     the file opens and every statement raises DatabaseError;
\*   "no_table"    a database without the table kp_forecasts_3day;
\*   "ok"          a database with the table.
Stores == {"missing", "unopenable", "corrupt", "no_table", "ok"}

SeqsUpTo(S, n) == UNION {[1..k -> S] : k \in 0..n}

\* The rows the feed may have written: at 12:00 of day 0 and of day 1, well
\* formed or in ISO 8601 form, with a Kp of 6.2 or NULL.
TableRows ==
    {[ts |-> t, kp |-> k] :
        t \in {SqlTimestamp(1), SqlTimestamp(3), IsoTimestamp(3)},
        k \in {6200, KpNull}}

Tables == SeqsUpTo(TableRows, MaxTableRows)

\* The rows a direct caller may pass: one sample time per day of days 0..3,
\* with a Kp of 3.0 or 9.0.
CallRows ==
    {[ts |-> SqlTimestamp(d * TicksPerDay + (d % TicksPerDay)), kp |-> k] :
        d \in 0..3, k \in {3000, 9000}}

\* The Kp values given to get_storm_level: every half unit, and the values
\* next to every whole one.
KpDomain ==
    {k \in 0..MaxKp : k % 500 = 0 \/ k % KpScale = 999 \/ k % KpScale = 1}

(***************************************************************************)
(* State.                                                                  *)
(***************************************************************************)
VARIABLES
    clock,      \* the wall clock, in ticks (the server's zone is UTC)
    store,      \* the condition of the file at DB_PATH
    tbl,        \* the rows of kp_forecasts_3day, in rowid order
    pc,         \* per request: "new", "dep", "handler", "finally", "done";
                \* "call" before a direct call of process_real_forecast_data
    endpoint,   \* per request: "none", "forecast", "status", "dbinfo"
    conn,       \* per request: the connection get_db_conn yielded, 0 for none
    opens,      \* per request: the sqlite3.connect calls that succeeded
    openConns,  \* the connections open now
    connCount,  \* the connections opened so far
    rows,       \* per request: the rows given to process_real_forecast_data
    today,      \* per request: today of process_real_forecast_data (line 181)
    response,   \* per request: what the caller receives
    kpArgs,     \* the arguments of get_storm_level under test
    kpLevels    \* their results

vars == <<clock, store, tbl, pc, endpoint, conn, opens, openConns, connCount,
          rows, today, response, kpArgs, kpLevels>>

Requests == 1..NumRequests

NoResponse == [kind |-> "none"]

Http500 == [kind |-> "http500"]

connVars == <<conn, opens, openConns, connCount>>

classifyVars == <<kpArgs, kpLevels>>

(***************************************************************************)
(* The requests.                                                           *)
(***************************************************************************)
\* The router picks the handler of a request.
Route(r) ==
    /\ pc[r] = "new"
    /\ \E ep \in {"forecast", "status", "dbinfo"} :
          endpoint' = [endpoint EXCEPT ![r] = ep]
    /\ pc' = [pc EXCEPT ![r] = "dep"]
    /\ UNCHANGED <<clock, store, tbl, connVars, rows, today, response, classifyVars>>

\* get_db_conn up to its yield: HTTPException(500) when the file is missing,
\* the exception of sqlite3.connect when it cannot be opened, else a connection.
GetDbConn(r) ==
    /\ pc[r] = "dep"
    /\ IF store \in {"missing", "unopenable"}
       THEN /\ response' = [response EXCEPT ![r] = Http500]
            /\ pc' = [pc EXCEPT ![r] = "done"]
            /\ UNCHANGED connVars
       ELSE /\ connCount' = connCount + 1
            /\ conn' = [conn EXCEPT ![r] = connCount + 1]
            /\ opens' = [opens EXCEPT ![r] = @ + 1]
            /\ openConns' = openConns \cup {connCount + 1}
            /\ pc' = [pc EXCEPT ![r] = "handler"]
            /\ UNCHANGED response
    /\ UNCHANGED <<clock, store, tbl, endpoint, rows, today, classifyVars>>

CaughtReraised(result, now) ==
    IF result.kind = "raise" THEN Http500 ELSE result

\* lines 145-147: an exception in the handler's try block becomes the
\* fallback, built at date now.
Caught(result, now) ==
    IF result.kind = "raise" THEN get_fallback_forecast(now) ELSE result

\* get_3day_forecast: the query, then the fallback (no rows, or any exception)
\* or the forecast built from the rows.  The clock may advance between the
\* query and the reads of process_real_forecast_data.
Forecast(r) ==
    /\ pc[r] = "handler" /\ endpoint[r] = "forecast"
    /\ pc' = [pc EXCEPT ![r] = "finally"]
    /\ IF store # "ok"
       THEN /\ response' = [response EXCEPT
                               ![r] = Caught([kind |-> "raise"], DateOfTick(clock))]
            /\ UNCHANGED <<clock, rows, today>>
       ELSE LET fetched == ForecastQuery(tbl, clock)
            IN  /\ rows' = [rows EXCEPT ![r] = fetched]
                /\ IF fetched = <<>>
                   THEN /\ response' = [response EXCEPT
                               ![r] = get_fallback_forecast(DateOfTick(clock))]
                        /\ UNCHANGED <<clock, today>>
                   ELSE \E d \in DateOfTick(clock)..DateOfTick(MaxClock) :
                        \E names \in ClockReads(d, DayNameCalls(fetched, d)) :
                           LET last == LastRead(d, names)
                           IN  /\ today' = [today EXCEPT ![r] = d]
                               /\ clock' = TickAtDate(clock, last)
                               /\ response' = [response EXCEPT ![r] =
                                      Caught(process_real_forecast_data(fetched, d, names),
                                             last)]
    /\ UNCHANGED <<store, tbl, endpoint, connVars, classifyVars>>

\* ORDER BY forecast_timestamp DESC LIMIT n.
LatestRows(t, n) ==
    LET ordered == OrderByTs(t)
        k == Min(n, Len(ordered))
    IN  [i \in 1..k |-> ordered[Len(ordered) + 1 - i]]

\* lines 103-110: the storm level of the latest row.
StatusStormLevel(kp) ==
    IF kp = KpNull THEN "Calm"
    ELSE IF kp >= 9 * KpScale THEN "Extreme"
    ELSE IF kp >= 8 * KpScale THEN "VeryStrong"
    ELSE IF kp >= 7 * KpScale THEN "Strong"
    ELSE IF kp >= 6 * KpScale THEN "Moderate"
    ELSE IF kp >= 5 * KpScale THEN "Minor"
    ELSE "Calm"

\* get_current_status: the latest row classified, "NoData" without rows, and
\* the error as the storm level when the query raises.
Status(r) ==
    /\ pc[r] = "handler" /\ endpoint[r] = "status"
    /\ pc' = [pc EXCEPT ![r] = "finally"]
    /\ response' = [response EXCEPT ![r] =
          IF store # "ok"
          THEN [kind |-> "status", current_kp |-> <<>>, storm_level |-> "Error"]
          ELSE IF tbl = <<>>
          THEN [kind |-> "status", current_kp |-> <<>>, storm_level |-> "NoData"]
          ELSE LET row == LatestRows(tbl, 1)[1]
               IN  [kind |-> "status", current_kp |-> <<row>>,
                    storm_level |-> StatusStormLevel(row.kp)]]
    /\ UNCHANGED <<clock, store, tbl, endpoint, connVars, rows, today, classifyVars>>

\* dbinfo: the tables, the row count and the last 5 rows; HTTPException(500)
\* when a statement raises.
DbInfo(r) ==
    /\ pc[r] = "handler" /\ endpoint[r] = "dbinfo"
    /\ pc' = [pc EXCEPT ![r] = "finally"]
    /\ response' = [response EXCEPT ![r] =
          IF store = "corrupt" THEN Http500
          ELSE IF store = "no_table"
          THEN [kind |-> "dbinfo", current_time |-> clock, has_table |-> FALSE,
                kp_forecast_count |-> 0, kp_forecast_last5 |-> <<>>]
          ELSE [kind |-> "dbinfo", current_time |-> clock, has_table |-> TRUE,
                kp_forecast_count |-> Len(tbl),
                kp_forecast_last5 |-> LatestRows(tbl, 5)]]
    /\ UNCHANGED <<clock, store, tbl, endpoint, connVars, rows, today, classifyVars>>

\* A direct call of process_real_forecast_data(rows): its result, or the
\* exception it raises, reaches the caller.
CallProcess(r) ==
    /\ pc[r] = "call"
    /\ pc' = [pc EXCEPT ![r] = "done"]
    /\ \E d \in DateOfTick(clock)..DateOfTick(MaxClock) :
       \E names \in ClockReads(d, DayNameCalls(rows[r], d)) :
          /\ today' = [today EXCEPT ![r] = d]
          /\ clock' = TickAtDate(clock, LastRead(d, names))
          /\ response' = [response EXCEPT
                             ![r] = process_real_forecast_data(rows[r], d, names)]
    /\ UNCHANGED <<store, tbl, endpoint, connVars, rows, classifyVars>>

\* get_storm_level applied to both arguments.
Classify ==
    /\ kpArgs # <<>> /\ kpLevels = <<>>
    /\ kpLevels' = [i \in DOMAIN kpArgs |-> get_storm_level(kpArgs[i])]
    /\ UNCHANGED <<clock, store, tbl, pc, endpoint, connVars, rows, today,
                   response, kpArgs>>

CloseConnOnSuccess(r) ==
    /\ pc[r] = "finally"
    /\ openConns' = IF response[r] = Http500 THEN openConns
                                             ELSE openConns \ {conn[r]}
    /\ pc' = [pc EXCEPT ![r] = "done"]
    /\ UNCHANGED <<clock, store, tbl, endpoint, conn, opens, connCount, rows,
                   today, response, classifyVars>>

\* finally: conn.close(), after the handler returned or raised.
CloseConn(r) ==
    /\ pc[r] = "finally"
    /\ openConns' = openConns \ {conn[r]}
    /\ pc' = [pc EXCEPT ![r] = "done"]
    /\ UNCHANGED <<clock, store, tbl, endpoint, conn, opens, connCount, rows,
                   today, response, classifyVars>>

\* Time passes.
Tick ==
    /\ clock < MaxClock
    /\ clock' = clock + 1
    /\ UNCHANGED <<store, tbl, pc, endpoint, connVars, rows, today, response,
                   classifyVars>>

\* No request is in flight, no connection is open.
Quiet ==
    /\ endpoint = [r \in Requests |-> "none"]
    /\ conn = [r \in Requests |-> 0]
    /\ opens = [r \in Requests |-> 0]
    /\ openConns = {}
    /\ connCount = 0
    /\ today = [r \in Requests |-> 0]
    /\ response = [r \in Requests |-> NoResponse]

\* The tables of the concurrent specification: at most one row.
SmallTables == SeqsUpTo(TableRows, 1)

(***************************************************************************)
(* Spec: NumRequests requests, interleaved, against a store of any         *)
(* condition.                                                              *)
(***************************************************************************)
Init ==
    /\ clock = 0
    /\ store \in Stores
    /\ tbl \in IF store = "ok" THEN SmallTables ELSE {<<>>}
    /\ pc = [r \in Requests |-> "new"]
    /\ rows = [r \in Requests |-> <<>>]
    /\ Quiet
    /\ kpArgs = <<>>
    /\ kpLevels = <<>>

Next ==
    \/ Tick
    \/ \E r \in Requests : Route(r)
    \/ \E r \in Requests : GetDbConn(r)
    \/ \E r \in Requests : Forecast(r)
    \/ \E r \in Requests : Status(r)
    \/ \E r \in Requests : DbInfo(r)
    \/ \E r \in Requests : CloseConn(r)

Spec == Init /\ [][Next]_vars

(***************************************************************************)
(* SpecForecast: one request against every table of up to MaxTableRows     *)
(* rows.                                                                   *)
(***************************************************************************)
InitForecast ==
    /\ clock = 0
    /\ store \in Stores
    /\ tbl \in IF store = "ok" THEN Tables ELSE {<<>>}
    /\ pc = [r \in Requests |-> IF r = 1 THEN "new" ELSE "idle"]
    /\ rows = [r \in Requests |-> <<>>]
    /\ Quiet
    /\ kpArgs = <<>>
    /\ kpLevels = <<>>

SpecForecast == InitForecast /\ [][Next]_vars

(***************************************************************************)
(* SpecRows: process_real_forecast_data called with every sequence of 1 to *)
(* MaxRows rows of CallRows, and with every sequence of 1 to MaxTableRows  *)
(* rows of TableRows (malformed timestamps, NULL kp).                      *)
(***************************************************************************)
CallInputs ==
    (SeqsUpTo(CallRows, MaxRows) \cup SeqsUpTo(TableRows, MaxTableRows)) \ {<<>>}

InitRows ==
    /\ clock = 0
    /\ store = "ok"
    /\ tbl = <<>>
    /\ pc = [r \in Requests |-> IF r = 1 THEN "call" ELSE "idle"]
    /\ \E input \in CallInputs :
          rows = [r \in Requests |-> IF r = 1 THEN input ELSE <<>>]
    /\ Quiet
    /\ kpArgs = <<>>
    /\ kpLevels = <<>>

\* The call reads the clock itself, at any dates from now on: time passing
\* before and during the call is in the choice of those reads.
NextRows == \E r \in Requests : CallProcess(r)

SpecRows == InitRows /\ [][NextRows]_vars

(***************************************************************************)
(* SpecClassify: get_storm_level applied to every pair of KpDomain.        *)
(***************************************************************************)
InitClassify ==
    /\ clock = 0
    /\ store = "ok"
    /\ tbl = <<>>
    /\ pc = [r \in Requests |-> "idle"]
    /\ rows = [r \in Requests |-> <<>>]
    /\ Quiet
    /\ kpArgs \in [1..2 -> KpDomain]
    /\ kpLevels = <<>>

NextClassify == Classify

SpecClassify == InitClassify /\ [][NextClassify]_vars

(***************************************************************************)
(* Properties.                                                             *)
(***************************************************************************)
\* The direct calls of process_real_forecast_data that have returned.
Returned == {r \in Requests : pc[r] = "done" /\ endpoint[r] = "none"}

\* The timestamps of the rows of request r, parsed.
Parsed(r) == [i \in DOMAIN rows[r] |-> Strptime(rows[r][i].ts)]

\* The dates of the parsed timestamps.
Dates(parsed) == {parsed[i].date : i \in {j \in DOMAIN parsed : parsed[j].ok}}

\* The 3 earliest of the dates not before t.
Earliest3(dates, t) ==
    LET fresh == {d \in dates : d >= t}
    IN  {d \in fresh : Cardinality({e \in fresh : e < d}) < 3}

\* For each day of a response, the dates among `dates` it is the entry of.
DayDates(resp, dates) ==
    LET text == [d \in dates |-> StrfDayMonth(d)]
    IN  [i \in DOMAIN resp.days |-> {d \in dates : text[d] = resp.days[i].date}]

\* The rows dated d, in input order: their indices.
RECURSIVE RowsOf(_, _, _)
RowsOf(parsed, d, i) ==
    IF i > Len(parsed) THEN <<>>
    ELSE IF parsed[i].ok /\ parsed[i].date = d
    THEN <<i>> \o RowsOf(parsed, d, i + 1)
    ELSE RowsOf(parsed, d, i + 1)

\* C1: for every non-empty sequence of well-formed rows, in any order, the
\* days returned by process_real_forecast_data are at most 3, their dates are
\* strictly ascending without repetition, and they are the 3 earliest
\* distinct dates of the input that are not before today.
C1_DaysAscendingAtMostThree ==
    \A r \in Returned :
        LET resp == response[r]
            parsed == Parsed(r)
            dates == Dates(parsed)
            kept == Earliest3(dates, today[r])
            dayDates == DayDates(resp, dates)
        IN  (\A i \in DOMAIN rows[r] : parsed[i].ok /\ rows[r][i].kp # KpNull) =>
              /\ resp.kind = "forecast"
              /\ Len(resp.days) <= 3
              /\ \A i \in DOMAIN resp.days :
                    dayDates[i] # {} /\ dayDates[i] \subseteq kept
              /\ kept \subseteq UNION {dayDates[i] : i \in DOMAIN resp.days}
              /\ \A i, j \in DOMAIN resp.days :
                    i < j => \A d \in dayDates[i], e \in dayDates[j] : d < e

\* The rows arrived with the latest date first, over more than 3 distinct
\* dates not before today, and 3 days were returned.
C1_Witness ==
    \E r \in Returned :
        LET parsed == Parsed(r)
        IN  /\ Cardinality({d \in Dates(parsed) : d >= today[r]}) > 3
            /\ \A i \in 2..Len(parsed) : parsed[i].date < parsed[1].date
            /\ response[r].kind = "forecast"
            /\ Len(response[r].days) = 3

\* C2: no row dated before today contributes a value or a time to any day
\* of the response and no day is made for such a date; every well-formed row
\* dated today or later whose date is among the retained days contributes,
\* so each day's series is exactly the rows of its date, in input order.
C2_StaleRowsExcluded ==
    \A r \in Returned :
        LET resp == response[r]
            parsed == Parsed(r)
            dates == Dates(parsed)
            kept == Earliest3(dates, today[r])
            dayDates == DayDates(resp, dates)
        IN  resp.kind = "forecast" =>
              /\ \A i \in DOMAIN resp.days : \A d \in dayDates[i] : d >= today[r]
              /\ \A d \in kept : \E i \in DOMAIN resp.days :
                    LET from == RowsOf(parsed, d, 1)
                    IN  /\ d \in dayDates[i]
                        /\ resp.days[i].values =
                              [k \in DOMAIN from |-> rows[r][from[k]].kp]
                        /\ resp.days[i].times =
                              [k \in DOMAIN from |-> TimeStr(parsed[from[k]])]
              /\ Len(resp.days) = Cardinality(kept)

\* A stale row and two rows of today were passed together, today being
\* day 1, and the response has the one day of today with both its rows.
C2_Witness ==
    \E r \in Returned :
        LET parsed == Parsed(r)
        IN  /\ today[r] = 1
            /\ \E i \in DOMAIN parsed : parsed[i].ok /\ parsed[i].date < today[r]
            /\ \E i, j \in DOMAIN parsed :
                  i # j /\ parsed[i].date = today[r] /\ parsed[j].date = today[r]
            /\ response[r].kind = "forecast"
            /\ Len(response[r].days) = 1
            /\ Len(response[r].days[1].values) = 2

\* The largest value of a non-empty series.
Largest(values) ==
    CHOOSE v \in {values[i] : i \in DOMAIN values} :
        \A i \in DOMAIN values : v >= values[i]

\* C7: in every response of process_real_forecast_data each day's stormLevel
\* is get_storm_level of the largest kp of its series (Calm for an empty
\* series), and currentStorm is the stormLevel of the first day, or Calm
\* when there is no day.
C7_StormLevelFromMax ==
    \A r \in Returned :
        LET resp == response[r]
        IN  resp.kind = "forecast" =>
              /\ \A i \in DOMAIN resp.days :
                    resp.days[i].stormLevel =
                        IF resp.days[i].values = <<>> THEN "Calm"
                        ELSE get_storm_level(Largest(resp.days[i].values))
              /\ resp.currentStorm =
                    IF resp.days = <<>> THEN "Calm" ELSE resp.days[1].stormLevel

\* The first day has the series 3.0, 9.0, 3.0: its largest value is neither
\* its first nor its last, its mean is below the Minor breakpoint, and the
\* day and currentStorm are Extreme.
C7_Witness ==
    \E r \in Returned :
        /\ response[r].kind = "forecast"
        /\ response[r].days # <<>>
        /\ response[r].days[1].values = <<3000, 9000, 3000>>
        /\ response[r].days[1].stormLevel = "Extreme"
        /\ response[r].currentStorm = "Extreme"

\* C10: every day of a response of process_real_forecast_data is labelled
\* relative to today, the date the stale-row filter used: "Today" exactly
\* when its date is today, "Tomorrow" exactly when it is today + 1, its
\* weekday name otherwise; so no two days share a relative label and a day
\* labelled "Today" is the first.
C10_LabelsRelativeToFilterDate ==
    \A r \in Returned :
        LET resp == response[r]
            dayDates == DayDates(resp, Dates(Parsed(r)))
        IN  resp.kind = "forecast" =>
              /\ \A i \in DOMAIN resp.days : \A d \in dayDates[i] :
                    resp.days[i].day =
                        IF d = today[r] THEN "Today"
                        ELSE IF d = today[r] + 1 THEN "Tomorrow"
                        ELSE WeekdayNames[1 + Weekday(d)]
              /\ \A i, j \in DOMAIN resp.days :
                    (i # j /\ resp.days[i].day \in {"Today", "Tomorrow"})
                        => resp.days[i].day # resp.days[j].day
              /\ \A i \in DOMAIN resp.days : resp.days[i].day = "Today" => i = 1

\* The forecast requests whose handler has returned.
Answered ==
    {r \in Requests :
        endpoint[r] = "forecast" /\ conn[r] # 0 /\ pc[r] \in {"finally", "done"}}

\* The fixed fallback structure, whatever its two dates.
IsFixedFallback(resp) ==
    /\ resp.kind = "forecast"
    /\ resp.location = "Moscow"
    /\ resp.currentStorm = "WeakStorm"
    /\ resp.warning = "DataUpdating"
    /\ Len(resp.days) = 2
    /\ resp.days[1].day = "Today"
    /\ resp.days[1].values = <<3000, 4000, 5000, 4000, 3000, 4000, 3000, 4000>>
    /\ resp.days[1].stormLevel = "WeakStorm"
    /\ resp.days[2].day = "Tomorrow"
    /\ resp.days[2].values = <<4000, 3000, 4000, 5000, 4000, 3000, 4000, 3000>>
    /\ resp.days[2].stormLevel = "WeakStorm"
    /\ resp.days[1].times = resp.days[2].times
    /\ Len(resp.days[1].times) = 8

\* C3 (as claimed): every response of the forecast operation has a non-empty
\* days list; when no usable row exists the fallback is returned instead of
\* a response with zero days.
C3_DaysNeverEmpty ==
    \A r \in Answered :
        response[r].kind = "forecast" /\ response[r].days # <<>>

\* C5: when the forecast query returns zero rows the response is the fixed
\* fallback: Today with 3,4,5,4,3,4,3,4 and Tomorrow with 4,3,4,5,4,3,4,3,
\* both WeakStorm, currentStorm WeakStorm, warning DataUpdating.
C5_EmptyQueryGivesFallback ==
    \A r \in Answered :
        (store = "ok" /\ rows[r] = <<>>) => IsFixedFallback(response[r])

\* The table has rows, all of them before now, and the query returned none.
C5_Witness ==
    \E r \in Answered :
        /\ store = "ok" /\ tbl # <<>> /\ rows[r] = <<>>
        /\ response[r].kind = "forecast"
        /\ response[r].days[1].day = "Today"

\* C8 (as claimed): a row with a malformed timestamp or kp is omitted and
\* every other well-formed row that is not stale still appears in the
\* response, which is built from the rows and is not the fallback.
C8_BadRowNotFatal ==
    \A r \in Answered :
        rows[r] # <<>> =>
            LET resp == response[r]
                parsed == Parsed(r)
                dayDates == DayDates(resp, Dates(parsed))
            IN  /\ resp.kind = "forecast"
                /\ \A i \in DOMAIN rows[r] :
                      (parsed[i].ok /\ rows[r][i].kp # KpNull
                          /\ parsed[i].date >= today[r])
                      => \E k \in DOMAIN resp.days :
                            /\ parsed[i].date \in dayDates[k]
                            /\ \E v \in DOMAIN resp.days[k].values :
                                  resp.days[k].values[v] = rows[r][i].kp

\* A retained day of the rows of request r holds a NULL kp: classifying it
\* raises TypeError.
AssemblyRaises(r) ==
    LET parsed == Parsed(r)
        kept == Earliest3(Dates(parsed), today[r])
    IN  \E i \in DOMAIN rows[r] :
            parsed[i].ok /\ parsed[i].date \in kept /\ rows[r][i].kp = KpNull

C9_ConnectionsScoped ==
    /\ \A r \in Requests : opens[r] <= 1
    /\ \A r \in Requests : pc[r] = "done" => conn[r] \notin openConns
    /\ \A r, q \in Requests : (r # q /\ conn[r] # 0) => conn[r] # conn[q]
    /\ openConns = {conn[r] : r \in {q \in Requests : pc[q] \in {"handler", "finally"}}}

\* A request whose handler raised has finished with its connection closed
\* while another request holds its own connection open.
C9_Witness ==
    \E r, q \in Requests :
        /\ r # q
        /\ pc[r] = "done" /\ conn[r] # 0 /\ response[r] = Http500
        /\ conn[r] \notin openConns
        /\ conn[q] \in openConns

\* The severity of a storm level.
Severity(level) ==
    CASE level = "Calm" -> 0
      [] level = "Minor" -> 1
      [] level = "Moderate" -> 2
      [] level = "Strong" -> 3
      [] level = "VeryStrong" -> 4
      [] level = "Extreme" -> 5

\* The level of the severity table: each row from its inclusive lower bound
\* up to the next.
TableLevel(kp) ==
    CHOOSE level \in {"Calm", "Minor", "Moderate", "Strong", "VeryStrong", "Extreme"} :
        \/ level = "Extreme" /\ kp >= 9000
        \/ level = "VeryStrong" /\ kp >= 8000 /\ kp < 9000
        \/ level = "Strong" /\ kp >= 7000 /\ kp < 8000
        \/ level = "Moderate" /\ kp >= 6000 /\ kp < 7000
        \/ level = "Minor" /\ kp >= 5000 /\ kp < 6000
        \/ level = "Calm" /\ kp < 5000

\* C6: get_storm_level follows the severity table with inclusive lower
\* bounds, is non-decreasing in severity, gives Extreme at 9.0 and 9.5 and
\* Calm at 4.999.
C6_SeverityTable ==
    kpLevels # <<>> =>
        /\ \A i \in DOMAIN kpArgs : kpLevels[i] = TableLevel(kpArgs[i])
        /\ kpArgs[1] <= kpArgs[2] => Severity(kpLevels[1]) <= Severity(kpLevels[2])
        /\ \A i \in DOMAIN kpArgs :
              /\ kpArgs[i] \in {9000, 9500} => kpLevels[i] = "Extreme"
              /\ kpArgs[i] = 4999 => kpLevels[i] = "Calm"

\* 4.999 and the breakpoint 5.0 were classified: Calm and Minor.
C6_Witness ==
    /\ kpArgs = <<4999, 5000>>
    /\ kpLevels = <<"Calm", "Minor">>

=============================================================================
